---------------------------- MODULE Spec2Model ----------------------------
(***************************************************************************)
(* local-search: the indexing engine (recursive fork-join directory walk,  *)
(* per-file extraction, tokenisation), the persisted index file and the    *)
(* application operations that build, load, rebuild and save the index,    *)
(* the query engine and the application's query and reindex key events.    *)
(*                                                                         *)
(* Text is a sequence of one-character strings.  A path is a sequence of   *)
(* names; a name is <<stem>> or <<stem, extension>>.  A Document is a      *)
(* function from term (a sequence of characters) to its count, an Index a  *)
(* function from path to Document.                                         *)
(*                                                                         *)
(* Four specifications: Spec (startups and reindexes on every tree),       *)
(* AppSpec (the same with the key events of the query box, on small        *)
(* trees), TokSpec (create_document_from_text called on every short text)  *)
(* and QuerySpec (do_query called on every small index and query).         *)
(***************************************************************************)
EXTENDS Integers, Sequences, FiniteSets, TLC

VARIABLES
    fs,          \* the document tree on disk: path -> node
    index_file,  \* the index file: [exists, readable, bytes]
    app,         \* the main thread: [pc, op, ri]
    model,       \* the index being built / App.model
    tasks,       \* the analyze_dir activations of the current walk: path -> task
    hist,        \* history: what the current startup / reindex has done so far
    docs,        \* App.docs: the displayed result list
    query,       \* App.query: the text of the search box
    query_box_selected,  \* App.query_box_selected
    doc_offset,  \* App.doc_offset: the scroll offset of the result list
    call,        \* a library function called on its own: its name and arguments
    ret          \* what that call returned

\* the fields of App the key events of the query box work on
ui == <<docs, query, query_box_selected, doc_offset>>

\* a call of create_document_from_text or do_query on arguments of its own
lib == <<call, ret>>

vars == <<fs, index_file, app, model, tasks, hist, docs, query, query_box_selected,
          doc_offset, call, ret>>

----------------------------------------------------------------------------
(* HashMap<K, V> as a function; insert overwrites.                          *)

EmptyMap == << >>

Insert(m, k, v) == [x \in (DOMAIN m) \cup {k} |-> IF x = k THEN v ELSE m[x]]

\* x.into_iter().for_each(|(k, v)| { map.insert(k, v); }): every entry of x is
\* inserted, so on a shared key the value of x wins.
InsertAll(m, x) == [k \in (DOMAIN m) \cup (DOMAIN x) |-> IF k \in DOMAIN x THEN x[k] ELSE m[k]]

RECURSIVE Sum(_, _)
\* the sum of f over S
Sum(f, S) == IF S = {} THEN 0 ELSE LET x == CHOOSE y \in S : TRUE IN f[x] + Sum(f, S \ {x})

----------------------------------------------------------------------------
(* Tokenizer: create_document_from_text.                                    *)

Letters == {"a", "c", "s", "t"}
Upper   == {"A", "C", "S", "T"}
Digits  == {"7"}
Vowels  == {"a"}

is_alphanumeric(c) == c \in Letters \cup Upper \cup Digits

is_whitespace(c) == c \in {" ", "\n"}

to_lowercase_char(c) ==
    CASE c = "A" -> "a"
      [] c = "C" -> "c"
      [] c = "S" -> "s"
      [] c = "T" -> "t"
      [] OTHER   -> c

to_lowercase(w) == [i \in 1..Len(w) |-> to_lowercase_char(w[i])]

ends_with(w, x) == Len(w) >= Len(x) /\ SubSeq(w, Len(w) - Len(x) + 1, Len(w)) = x

drop_last(w, n) == SubSeq(w, 1, Len(w) - n)

\* prelude: an initial apostrophe is removed
prelude(w) == IF w # <<>> /\ w[1] = "'" THEN Tail(w) ELSE w

\* step 0: the longest of the suffixes ', 's and 's' is removed
step_0(w) ==
    IF ends_with(w, <<"'", "s", "'">>) THEN drop_last(w, 3)
    ELSE IF ends_with(w, <<"'", "s">>) THEN drop_last(w, 2)
    ELSE IF ends_with(w, <<"'">>) THEN drop_last(w, 1)
    ELSE w

\* a final "s" not preceded by "s" is removed when the part before it holds a
\* vowel that is not the character right before the "s"
step_1a(w) ==
    IF /\ ends_with(w, <<"s">>)
       /\ ~ends_with(w, <<"s", "s">>)
       /\ \E i \in 1..(Len(w) - 2) : w[i] \in Vowels
    THEN drop_last(w, 1)
    ELSE w

\* The English (Porter2) stemmer on lowercased words over Letters, Digits, "-"
\* and "'" and on one-character terms: a word of at most two characters is
\* left alone; of the suffix rules only those of steps 0 and 1a apply to this
\* alphabet, and none of the stemmer's exceptional words is written in it.
stem(w) == IF Len(w) <= 2 THEN w ELSE step_1a(step_0(prelude(w)))

\* an add_to_map without the test !word.is_empty()
add_to_map_any(word, map) ==
    LET t == stem(to_lowercase(word))
    IN  Insert(map, t, IF t \in DOMAIN map THEN map[t] + 1 ELSE 1)

add_to_map(word, map) ==
    IF word = <<>> THEN map
    ELSE LET t == stem(to_lowercase(word))
         IN  Insert(map, t, IF t \in DOMAIN map THEN map[t] + 1 ELSE 1)

RECURSIVE scan_text(_, _, _, _)
\* The loop over text.chars() from position i, then the final flush.
scan_text(text, i, current_word, words_map) ==
    IF i > Len(text) THEN add_to_map(current_word, words_map)
    ELSE LET c == text[i] IN
         IF is_alphanumeric(c) \/ c = "'" \/ c = "-"
         THEN scan_text(text, i + 1, Append(current_word, c), words_map)
         ELSE LET m1 == add_to_map(current_word, words_map)
                  m2 == IF ~is_whitespace(c) THEN add_to_map(<<c>>, m1) ELSE m1
              IN  scan_text(text, i + 1, <<>>, m2)

create_document_from_text(text) == scan_text(text, 1, <<>>, EmptyMap)

----------------------------------------------------------------------------
(* Format extractors: FileType::from_str and analyze_file.                  *)

NoExt == "<none>"

\* an extension that is not valid UTF-8: OsStr::to_str gives None for it
NonUtf8 == "<bytes>"

\* file name stems that are not valid UTF-8 (on Unix a name is any sequence
\* of bytes), each of one invalid byte
InvalidNames == {"<ff>", "<fe>"}

\* U+FFFD, the replacement character
Replacement == "<fffd>"

\* p.to_string_lossy(): every part of the path that is not valid UTF-8 is
\* replaced by U+FFFD
to_string_lossy(p) ==
    [i \in 1..Len(p) |->
        [j \in 1..Len(p[i]) |->
            IF p[i][j] \in InvalidNames \cup {NonUtf8} THEN Replacement ELSE p[i][j]]]

\* p.extension() of the last component of path p
extension(p) == IF Len(p[Len(p)]) = 2 THEN p[Len(p)][2] ELSE NoExt

FileType_from_str(s) ==
    CASE s \in {"xml", "xhtml"} -> "Xml"
      [] s = "pdf"              -> "Pdf"
      [] OTHER                  -> "Err"

RECURSIVE xml_text(_, _)
\* The loop over the parser's events: the text of every Characters event, each
\* followed by one space; an Err event is logged, any other event ignored.
xml_text(events, i) ==
    IF i > Len(events) THEN <<>>
    ELSE (IF events[i].t = "chars" THEN events[i].c \o <<" ">> ELSE <<>>)
         \o xml_text(events, i + 1)

\* lopdf's extract_text over all pages: the text of the document's text events
RECURSIVE pdf_text(_, _)
pdf_text(events, i) ==
    IF i > Len(events) THEN <<>>
    ELSE (IF events[i].t = "chars" THEN events[i].c ELSE <<>>) \o pdf_text(events, i + 1)

\* analyze_file(p) on file node f: [r |-> "Ok", key, doc], [r |-> "Err"] (skipped)
\* or [r |-> "Panic"] (an unwrap on a failed open, load or extraction).
analyze_file(p, f) ==
    IF extension(p) = NoExt THEN [r |-> "Err"]
    ELSE IF extension(p) = NonUtf8 THEN [r |-> "Panic"]   \* s.to_str().unwrap()
    ELSE LET ft == FileType_from_str(extension(p)) IN
         CASE ft = "Xml" ->
                IF f.cond = "noopen" THEN [r |-> "Panic"]
                ELSE [r |-> "Ok", key |-> p,
                      doc |-> create_document_from_text(xml_text(f.data, 1))]
           [] ft = "Pdf" ->
                IF f.cond \in {"noopen", "badpdf"} THEN [r |-> "Panic"]
                ELSE IF f.cond = "encrypted" THEN [r |-> "Err"]
                ELSE IF f.cond = "notext" THEN [r |-> "Panic"]
                ELSE [r |-> "Ok", key |-> p,
                      doc |-> create_document_from_text(pdf_text(f.data, 1))]
           [] OTHER -> [r |-> "Err"]

----------------------------------------------------------------------------
(* The document tree.  A node is [kind, cond, data]: kind "dir" | "file" |  *)
(* "other" (neither a regular file nor a readable directory, e.g. a symlink *)
(* to a file or a fifo); cond "ok" or the failure the node answers with;    *)
(* data the file's content as the extractor's event sequence.               *)

Chars(text) == [t |-> "chars", c |-> text]
ErrEvent    == [t |-> "err",   c |-> <<>>]
TagEvent    == [t |-> "tag",   c |-> <<>>]

DirNode        == [kind |-> "dir",  cond |-> "ok", data |-> <<>>]
FileNode(data) == [kind |-> "file", cond |-> "ok", data |-> data]

Docs == << <<"docs">> >>
More == << <<"more">> >>
Sub1 == Docs \o << <<"sub1">> >>
Sub2 == Docs \o << <<"sub2">> >>
Deep == Sub2 \o << <<"deep">> >>

DocsA  == Docs \o << <<"a", "xml">> >>
Sub1B  == Sub1 \o << <<"b", "pdf">> >>
Sub1N  == Sub1 \o << <<"notes", "txt">> >>
Sub2A  == Sub2 \o << <<"a", "xml">> >>
DocsFF == Docs \o << <<"<ff>", "xml">> >>
DocsFE == Docs \o << <<"<fe>", "xml">> >>
DeepC  == Deep \o << <<"c", "xhtml">> >>
MoreD  == More \o << <<"d", "xml">> >>
MoreX  == More \o << <<"X", "XML">> >>
MoreR  == More \o << <<"README">> >>
MoreU  == More \o << <<"u", NonUtf8>> >>

\* conf.document_directories
document_directories == <<Docs, More>>

\* docs/
\*   sub1/          b.pdf  "Cats. cats"     notes.txt
\*   sub2/
\*     deep/        c.xhtml <r>a<b/>cat</r> with one parser error
\* more/            d.xml  "sat"   X.XML   README
TreeFull ==
    (Docs  :> DirNode) @@ (More :> DirNode) @@ (Sub1 :> DirNode) @@
    (Sub2  :> DirNode) @@ (Deep :> DirNode) @@
    (Sub1B :> FileNode(<<Chars(<<"C", "a", "t", "s", ".", " ", "c", "a", "t", "s">>)>>)) @@
    (Sub1N :> FileNode(<<Chars(<<"c", "a", "t">>)>>)) @@
    (DeepC :> FileNode(<<Chars(<<"a">>), TagEvent, Chars(<<"c", "a", "t">>), ErrEvent>>)) @@
    (MoreD :> FileNode(<<Chars(<<"s", "a", "t">>)>>)) @@
    (MoreX :> FileNode(<<Chars(<<"c", "a", "t">>)>>)) @@
    (MoreR :> FileNode(<<Chars(<<"c", "a", "t">>)>>))

\* The tree after the user removed docs/a.xml, sub1, deep and more/d.xml and
\* wrote docs/sub2/a.xml: one indexable file is left.
TreeOne ==
    (Docs  :> DirNode) @@ (More :> DirNode) @@ (Sub2 :> DirNode) @@
    (Sub2A :> FileNode(<<Chars(<<"c", "a", "t", "s">>)>>)) @@
    (MoreR :> FileNode(<<Chars(<<"c", "a", "t">>)>>))

\* Both roots empty.
TreeEmpty == (Docs :> DirNode) @@ (More :> DirNode)

CleanTrees == {TreeFull, TreeOne, TreeEmpty}

\* Both roots without subdirectories; more/ holds d.xml and a file whose
\* extension is not valid UTF-8.
TreeRaw ==
    (Docs :> DirNode) @@ (More :> DirNode) @@
    (MoreD :> FileNode(<<Chars(<<"s", "a", "t">>)>>)) @@
    (MoreU :> [FileNode(<<Chars(<<"c", "a", "t">>)>>) EXCEPT !.cond = "nonutf8"])

\* docs/ holds two files whose names are not valid UTF-8 and differ in one
\* byte: \xff.xml "cat" and \xfe.xml "sat".
TreeLossy ==
    (Docs :> DirNode) @@ (More :> DirNode) @@
    (DocsFF :> FileNode(<<Chars(<<"c", "a", "t">>)>>)) @@
    (DocsFE :> FileNode(<<Chars(<<"s", "a", "t">>)>>))

\* A tree of two indexable files, one in a subdirectory of the first root
\* and one in the second root: docs/sub2/a.xml "sat", more/d.xml "cat sat".
TreeSmall ==
    (Docs  :> DirNode) @@ (More :> DirNode) @@ (Sub2 :> DirNode) @@
    (Sub2A :> FileNode(<<Chars(<<"s", "a", "t">>)>>)) @@
    (MoreD :> FileNode(<<Chars(<<"c", "a", "t", " ", "s", "a", "t">>)>>))

\* the trees the application is run on with its query box in use
AppTrees == {TreeSmall, TreeOne, TreeEmpty}

\* The failures and special conditions a node of TreeFull can answer with.
Conditions ==
    { <<Sub1,  "noread">>,     \* directory cannot be read
      <<More,  "noread">>,     \* a configured root cannot be read
      <<Deep,  "notdir">>,     \* neither a file nor a directory
      <<Sub1B, "nometa">>,     \* entry whose metadata cannot be read
      <<DeepC, "noopen">>,     \* xml file that cannot be opened
      <<Sub1B, "badpdf">>,     \* pdf that cannot be loaded
      <<Sub1B, "notext">>,     \* pdf whose text extraction fails
      <<Sub1B, "encrypted">> } \* pdf that reports itself encrypted

MaxFaults == 1

RECURSIVE WithConditions(_, _)
WithConditions(tree, cs) ==
    IF cs = {} THEN tree
    ELSE LET c == CHOOSE x \in cs : TRUE
         IN  WithConditions([tree EXCEPT ![c[1]].cond = c[2]], cs \ {c})

\* one condition per node
FaultSets ==
    {cs \in SUBSET Conditions :
        /\ Cardinality(cs) \in 1..MaxFaults
        /\ \A x, y \in cs : x[1] = y[1] => x = y}

Trees == CleanTrees \cup {TreeRaw, TreeLossy} \cup {WithConditions(TreeFull, cs) : cs \in FaultSets}

\* the entries read_dir(p) yields
Children(tree, p) ==
    {q \in DOMAIN tree : Len(q) = Len(p) + 1 /\ SubSeq(q, 1, Len(p)) = p}

\* p.read_dir() succeeds
read_dir_ok(tree, p) ==
    p \in DOMAIN tree /\ tree[p].kind = "dir" /\ tree[p].cond = "ok"

\* d.metadata() succeeds
metadata_ok(tree, d) == tree[d].cond # "nometa"

\* d.metadata().unwrap().is_file()
is_file(tree, d) == tree[d].kind = "file"

----------------------------------------------------------------------------
(* The index file.  The Index is written and read by the library wincode,   *)
(* whose code is not part of the repository's sources.  Its format is       *)
(* modelled from what the specification says of the persisted form: one     *)
(* binary payload, opaque, "self-describing enough to reconstruct the       *)
(* path -> term-count mapping exactly", from which save followed by load    *)
(* gives the Index back, and which a deserialization failure makes          *)
(* unusable.  The layout below is one format of that kind: a map is its     *)
(* entry count followed by its entries in the map's iteration order; a      *)
(* String is its length followed by its units; Document is its one field    *)
(* words; a usize count is one integer.  The file is a sequence of integers;*)
(* every character and every path component has an integer code.  What the  *)
(* state machine takes from the format is this much: deserialize returns    *)
(* the Index that serialize was given, whatever order the maps were         *)
(* iterated in, and a file that was cut short does not deserialize.  A      *)
(* HashMap (std's RandomState) iterates its keys in any order, every map in *)
(* an order of its own.                                                     *)

Atoms ==
    << "/", ".", " ", "'", "-", "a", "c", "s", "t", "A", "C", "S", "T", "7",
       "docs", "more", "sub1", "sub2", "deep", "b", "d", "X", "notes", "README",
       "xml", "xhtml", "pdf", "XML", "txt", Replacement >>

Code(a) == CHOOSE i \in 1..Len(Atoms) : Atoms[i] = a

Slash == Code("/")
Dot   == Code(".")

\* The orders a HashMap with key set S can be iterated in: every sequence
\* that holds each key once.
IterOrders(S) ==
    {s \in [1..Cardinality(S) -> S] :
        \A i, j \in 1..Cardinality(S) : i # j => s[i] # s[j]}

\* map.iter(): the keys of map m in one of its iteration orders
iter(m) == IterOrders(DOMAIN m)

\* The ways the Documents of the paths in S can be iterated: for every path
\* an order, of its own, of the terms of its Document.
RECURSIVE InnerOrders(_, _)
InnerOrders(idx, S) ==
    IF S = {} THEN {EmptyMap}
    ELSE LET p == CHOOSE q \in S : TRUE IN
         {Insert(f, p, o) : o \in iter(idx[p]), f \in InnerOrders(idx, S \ {p})}

\* The ways an Index can be iterated by a serializer: an order of its paths
\* and, for every Document, an order of its own of its terms.
Layouts(idx) ==
    {[outer |-> o, inner |-> f] :
        o \in iter(idx), f \in InnerOrders(idx, DOMAIN idx)}

RECURSIVE Flatten(_)
Flatten(ss) == IF ss = <<>> THEN <<>> ELSE Head(ss) \o Flatten(Tail(ss))

name_units(n) == IF Len(n) = 2 THEN <<Code(n[1]), Dot, Code(n[2])>> ELSE <<Code(n[1])>>

\* the units of the path string: its components, separated by "/"
path_units(p) ==
    Flatten([i \in 1..Len(p) |-> (IF i > 1 THEN <<Slash>> ELSE <<>>) \o name_units(p[i])])

term_units(t) == [i \in 1..Len(t) |-> Code(t[i])]

write_str(units) == <<Len(units)>> \o units

\* a layout that leaves the counts out
write_document_no_counts(doc, ts) ==
    <<Len(ts)>> \o Flatten([i \in 1..Len(ts) |-> write_str(term_units(ts[i]))])

\* Document { words }: the count of the map, then (term, count) per entry, the
\* map iterated in order ts
write_document(doc, ts) ==
    <<Len(ts)>> \o
    Flatten([i \in 1..Len(ts) |-> write_str(term_units(ts[i])) \o <<doc[ts[i]]>>])

\* wincode::serialize(&model), the maps iterated as layout lay says
serialize(idx, lay) ==
    LET ps == lay.outer
    IN  <<Len(ps)>> \o
        Flatten([i \in 1..Len(ps) |->
                    write_str(path_units(ps[i]))
                    \o write_document(idx[ps[i]], lay.inner[ps[i]])])

ReadFail == [ok |-> FALSE, pos |-> 0, v |-> <<>>]

\* a length or a count at position pos
read_int(b, pos) ==
    IF pos <= Len(b) THEN [ok |-> TRUE, pos |-> pos + 1, v |-> <<b[pos]>>] ELSE ReadFail

\* a String: its length, then that many units
read_str(b, pos) ==
    LET n == read_int(b, pos) IN
    IF ~n.ok \/ n.pos + n.v[1] - 1 > Len(b) THEN ReadFail
    ELSE [ok |-> TRUE, pos |-> n.pos + n.v[1], v |-> SubSeq(b, n.pos, n.pos + n.v[1] - 1)]

units_term(u) == [i \in 1..Len(u) |-> Atoms[u[i]]]

RECURSIVE units_names(_, _)
\* the components of a path string: split at "/", the extension after "."
units_names(u, cur) ==
    IF u = <<>> THEN <<cur>>
    ELSE IF Head(u) = Slash THEN <<cur>> \o units_names(Tail(u), <<>>)
    ELSE IF Head(u) = Dot THEN units_names(Tail(u), cur)
    ELSE units_names(Tail(u), Append(cur, Atoms[Head(u)]))

units_path(u) == units_names(u, <<>>)

RECURSIVE read_words(_, _, _, _)
\* n (term, count) entries from pos, inserted into acc
read_words(b, pos, n, acc) ==
    IF n = 0 THEN [ok |-> TRUE, pos |-> pos, v |-> acc]
    ELSE LET t == read_str(b, pos) IN
         IF ~t.ok THEN ReadFail
         ELSE LET c == read_int(b, t.pos) IN
              IF ~c.ok THEN ReadFail
              ELSE read_words(b, c.pos, n - 1, Insert(acc, units_term(t.v), c.v[1]))

read_document(b, pos) ==
    LET n == read_int(b, pos) IN
    IF ~n.ok THEN ReadFail ELSE read_words(b, n.pos, n.v[1], EmptyMap)

RECURSIVE read_entries(_, _, _, _)
\* n (path, Document) entries from pos, inserted into acc
read_entries(b, pos, n, acc) ==
    IF n = 0 THEN [ok |-> TRUE, pos |-> pos, v |-> acc]
    ELSE LET k == read_str(b, pos) IN
         IF ~k.ok THEN ReadFail
         ELSE LET d == read_document(b, k.pos) IN
              IF ~d.ok THEN ReadFail
              ELSE read_entries(b, d.pos, n - 1, Insert(acc, units_path(k.v), d.v))

\* wincode::deserialize(&bytes): [ok, v] with v the Index when ok
deserialize(b) ==
    LET n == read_int(b, 1) IN
    IF ~n.ok THEN ReadFail ELSE read_entries(b, n.pos, n.v[1], EmptyMap)

----------------------------------------------------------------------------
(* Query engine: do_query.                                                  *)
(*                                                                          *)
(* The scores are f64 numbers and are computed as the processor computes    *)
(* them: every division, product and sum is rounded to the nearest number   *)
(* of 53 significant bits, ties to the even one.  A finite number is        *)
(* man * 2^exp with man a natural number of exactly MantBits bits (or 0),   *)
(* kept as a sequence of limbs of LimbBits bits, the lowest first; the      *)
(* scores of do_query are never negative, and with the counts of a small    *)
(* Index they neither overflow nor become subnormal.  log2 is the function  *)
(* of the C library the build links to (glibc), given as a table of its     *)
(* values at the quotients n / d and 1 + n / d of up to eight documents.    *)

\* the significant bits of an f64
MantBits == 53

\* the bits of a limb: the product of two limbs, and a sum of a few such
\* products, is below 2^31
LimbBits == 14

Base == 2^LimbBits

\* the limbs after the point that a quotient of two counts is developed to
\* before it is rounded
FracLimbs == 5

RECURSIVE Trim(_)
\* a natural number without its leading zero limbs
Trim(n) == IF n # <<>> /\ n[Len(n)] = 0 THEN Trim(SubSeq(n, 1, Len(n) - 1)) ELSE n

RECURSIVE Carry(_, _)
\* the limbs of the number whose places are n, each place below 2^31, and
\* carry c
Carry(n, c) ==
    IF n = <<>> THEN (IF c = 0 THEN <<>> ELSE <<c % Base>> \o Carry(<<>>, c \div Base))
    ELSE <<(Head(n) + c) % Base>> \o Carry(Tail(n), (Head(n) + c) \div Base)

Limb(n, i) == IF i <= Len(n) THEN n[i] ELSE 0

BigAdd(a, b) ==
    LET k == IF Len(a) >= Len(b) THEN Len(a) ELSE Len(b)
    IN  Trim(Carry([i \in 1..k |-> Limb(a, i) + Limb(b, i)], 0))

BigMul(a, b) ==
    IF a = <<>> \/ b = <<>> THEN <<>>
    ELSE Trim(Carry([k \in 1..(Len(a) + Len(b) - 1) |->
                        LET S == {i \in 1..Len(a) : k + 1 - i >= 1 /\ k + 1 - i <= Len(b)}
                        IN  Sum([i \in S |-> a[i] * b[k + 1 - i]], S)], 0))

RECURSIVE BitLenLimb(_)
BitLenLimb(x) == IF x = 0 THEN 0 ELSE 1 + BitLenLimb(x \div 2)

\* the number of bits of n
BitLen(n) == IF n = <<>> THEN 0 ELSE LimbBits * (Len(n) - 1) + BitLenLimb(n[Len(n)])

\* n * 2^s
ShiftLeft(n, s) ==
    Trim(Carry([i \in 1..(s \div LimbBits) |-> 0]
               \o [i \in 1..Len(n) |-> n[i] * 2^(s % LimbBits)], 0))

\* n \div 2^s
ShiftRight(n, s) ==
    LET w == s \div LimbBits
        r == s % LimbBits
    IN  Trim([i \in 1..(Len(n) - w) |->
                 (Limb(n, i + w) \div 2^r) + (Limb(n, i + w + 1) % 2^r) * 2^(LimbBits - r)])

\* bit k of n, bit 0 the lowest
Bit(n, k) == (Limb(n, k \div LimbBits + 1) \div 2^(k % LimbBits)) % 2

\* the k lowest bits of n are all 0
LowZero(n, k) ==
    /\ \A i \in 1..Len(n) : i <= k \div LimbBits => n[i] = 0
    /\ Limb(n, k \div LimbBits + 1) % 2^(k % LimbBits) = 0

\* a < b, a = b or a > b as -1, 0 or 1
BigCmp(a, b) ==
    IF Len(a) # Len(b) THEN (IF Len(a) < Len(b) THEN -1 ELSE 1)
    ELSE LET D == {i \in 1..Len(a) : a[i] # b[i]} IN
         IF D = {} THEN 0
         ELSE LET i == CHOOSE j \in D : \A l \in D : l <= j
              IN  IF a[i] < b[i] THEN -1 ELSE 1

\* An f64 of the query engine: a finite number that is not negative, an
\* infinity, or the NaN that 0.0 / 0.0, 0.0 * inf and inf - inf give.  That
\* NaN has its sign bit set on x86-64, and an operation on a NaN returns it.
Num(man, exp) == [cls |-> "num", man |-> man, exp |-> exp]

\* 0.0
Zero == Num(<<>>, 0)

NaN == [cls |-> "nan", man |-> <<>>, exp |-> 0]

NegInf == [cls |-> "-inf", man |-> <<>>, exp |-> 0]

PosInf == [cls |-> "+inf", man |-> <<>>, exp |-> 0]

is_finite(a) == a.cls = "num"

\* d == 0.0
is_zero(a) == is_finite(a) /\ a.man = <<>>

\* The f64 nearest to a number x with n * 2^e <= x < (n + 1) * 2^e, n > 0;
\* x is n * 2^e itself unless inexact.  Ties go to the even significand.
round_f64(n, e, inexact) ==
    LET d == BitLen(n) - MantBits IN
    IF d <= 0 THEN Num(ShiftLeft(n, -d), e + d)
    ELSE LET q    == ShiftRight(n, d)
             half == Bit(n, d - 1) = 1
             rest == inexact \/ ~LowZero(n, d - 1)
             q1   == IF half /\ (rest \/ Bit(q, 0) = 1) THEN BigAdd(q, <<1>>) ELSE q
         IN  IF BitLen(q1) > MantBits THEN Num(ShiftRight(q1, 1), e + d + 1)
             ELSE Num(q1, e + d)

\* a small natural number as f64
from_int(k) == IF k = 0 THEN Zero ELSE round_f64(Trim(Carry(<<k>>, 0)), 0, FALSE)

RECURSIVE digits(_, _, _)
\* the next k limbs of the quotient rem / d, rem < d, the highest first
digits(rem, d, k) ==
    IF k = 0 THEN <<>>
    ELSE <<(rem * Base) \div d>> \o digits((rem * Base) % d, d, k - 1)

RECURSIVE rem_after(_, _, _)
\* what is left of rem / d after k limbs
rem_after(rem, d, k) == IF k = 0 THEN rem ELSE rem_after((rem * Base) % d, d, k - 1)

\* n as f64 / d as f64
fdiv(n, d) ==
    IF d = 0 THEN (IF n = 0 THEN NaN ELSE PosInf)
    ELSE IF n = 0 THEN Zero
    ELSE LET ds == digits(n % d, d, FracLimbs)
             q  == [i \in 1..FracLimbs |-> ds[FracLimbs + 1 - i]] \o <<n \div d>>
         IN  round_f64(Trim(q), -(LimbBits * FracLimbs), rem_after(n % d, d, FracLimbs) # 0)

\* exp and the limbs of man, as the key and the value of Log2Table
Key(a) == <<a.exp>> \o a.man

\* log2 at the quotients n / d and 1 + n / d, 1 <= d <= n <= 8, that are no
\* power of 2
Log2Table ==
    (<<-52, 9362, 2340, 4681, 1170>> :> <<-55, 15664, 11006, 2432, 1578>>) @@
    (<<-52, 10923, 10922, 10922, 1194>> :> <<-55, 6029, 8457, 13741, 1821>>) @@
    (<<-52, 13107, 3276, 13107, 1228>> :> <<-54, 6678, 2759, 6372, 1077>>) @@
    (<<-52, 0, 0, 0, 1280>> :> <<-54, 7051, 12084, 10116, 1318>>) @@
    (<<-52, 5461, 5461, 5461, 1365>> :> <<-54, 2653, 1540, 16279, 1699>>) @@
    (<<-52, 9830, 6553, 9830, 1433>> :> <<-54, 1498, 15180, 5050, 1988>>) @@
    (<<-52, 0, 0, 0, 1536>> :> <<-53, 15057, 7421, 52, 1198>>) @@
    (<<-52, 6554, 9830, 6553, 1638>> :> <<-53, 12859, 10341, 11325, 1388>>) @@
    (<<-52, 10923, 10922, 10922, 1706>> :> <<-53, 4853, 15004, 5005, 1509>>) @@
    (<<-52, 0, 0, 0, 1792>> :> <<-53, 4275, 13632, 7583, 1653>>) @@
    (<<-51, 4681, 9362, 2340, 1097>> :> <<-52, 15345, 8107, 15147, 1125>>) @@
    (<<-51, 5462, 5461, 5461, 1109>> :> <<-52, 1790, 3600, 4074, 1142>>) @@
    (<<-51, 6554, 9830, 6553, 1126>> :> <<-52, 13218, 5221, 13166, 1164>>) @@
    (<<-51, 0, 0, 0, 1152>> :> <<-52, 15057, 7421, 52, 1198>>) @@
    (<<-51, 10922, 10922, 10922, 1194>> :> <<-52, 2800, 11297, 11957, 1251>>) @@
    (<<-51, 10923, 10922, 10922, 1194>> :> <<-52, 2802, 11297, 11957, 1251>>) @@
    (<<-51, 13107, 3276, 13107, 1228>> :> <<-52, 13957, 689, 5689, 1293>>) @@
    (<<-51, 0, 0, 0, 1280>> :> <<-52, 1763, 3021, 10721, 1353>>) @@
    (<<-51, 3277, 13107, 3276, 1331>> :> <<-52, 15747, 4289, 9763, 1411>>) @@
    (<<-51, 5461, 5461, 5461, 1365>> :> <<-52, 663, 12673, 16357, 1448>>) @@
    (<<-51, 5462, 5461, 5461, 1365>> :> <<-52, 664, 12673, 16357, 1448>>) @@
    (<<-51, 0, 0, 0, 1408>> :> <<-52, 14980, 8242, 7503, 1494>>) @@
    (<<-51, 0, 0, 0, 1536>> :> <<-52, 15720, 3710, 26, 1623>>) @@
    (<<-51, 10923, 10922, 10922, 1706>> :> <<-52, 2427, 15694, 10694, 1778>>) @@
    (<<-51, 0, 0, 0, 1792>> :> <<-52, 2138, 15008, 11983, 1850>>) @@
    (<<-51, 5461, 5461, 5461, 1877>> :> <<-52, 15643, 4531, 7477, 1919>>) @@
    (<<-50, 0, 0, 0, 1152>> :> <<-51, 15720, 3710, 26, 1111>>) @@
    (<<-50, 0, 0, 0, 1280>> :> <<-51, 9073, 9702, 13552, 1188>>) @@
    (<<-50, 0, 0, 0, 1536>> :> <<-51, 7860, 1855, 8205, 1323>>) @@
    (<<-50, 0, 0, 0, 1792>> :> <<-51, 1069, 15696, 5991, 1437>>) @@
    (<<-49, 0, 0, 0, 1152>> :> <<-51, 15720, 3710, 26, 1623>>)

\* x.log2(): log2 of a power of 2 is the whole number, log2(0) is -inf
log2(x) ==
    IF ~is_finite(x) THEN x
    ELSE IF is_zero(x) THEN NegInf
    ELSE IF LowZero(x.man, MantBits - 1) THEN from_int(x.exp + MantBits - 1)
    ELSE LET y == Log2Table[Key(x)] IN Num(Tail(y), Head(y))

\* a * b
times(a, b) ==
    IF a.cls = "nan" \/ b.cls = "nan" THEN NaN
    ELSE IF ~is_finite(a) \/ ~is_finite(b)
    THEN (IF is_zero(a) \/ is_zero(b) THEN NaN
          ELSE IF (a.cls = "-inf") # (b.cls = "-inf") THEN NegInf ELSE PosInf)
    ELSE IF is_zero(a) \/ is_zero(b) THEN Zero
    ELSE round_f64(BigMul(a.man, b.man), a.exp + b.exp, FALSE)

\* point + x
plus(point, x) ==
    IF point.cls = "nan" THEN point
    ELSE IF x.cls = "nan" THEN x
    ELSE IF ~is_finite(point) THEN (IF is_finite(x) \/ x.cls = point.cls THEN point ELSE NaN)
    ELSE IF ~is_finite(x) THEN x
    ELSE IF is_zero(point) THEN x
    ELSE IF is_zero(x) THEN point
    ELSE LET hi == IF point.exp >= x.exp THEN point ELSE x
             lo == IF point.exp >= x.exp THEN x ELSE point
             s  == hi.exp - lo.exp
         IN  \* lo is below a quarter of the last place of hi
             IF s > MantBits + 2 THEN hi
             ELSE round_f64(BigAdd(ShiftLeft(hi.man, s), lo.man), lo.exp, FALSE)

\* a smoothed idf, (1.0 + n / d).log2()
log2_ratio_smoothed(n, d) == log2(plus(from_int(1), fdiv(n, d)))

\* (n as f64 / d as f64).log2()
log2_ratio(n, d) == log2(fdiv(n, d))

\* where a number stands in the order of total_cmp: the NaN with its sign bit
\* set, -inf, the finite numbers, +inf
rank(a) ==
    IF a.cls = "nan" THEN 1 ELSE IF a.cls = "-inf" THEN 2 ELSE IF a.cls = "num" THEN 3 ELSE 4

\* a.total_cmp(b) is Less, Equal or Greater, as -1, 0 or 1
total_cmp(a, b) ==
    IF rank(a) # rank(b) THEN (IF rank(a) < rank(b) THEN -1 ELSE 1)
    ELSE IF ~is_finite(a) THEN 0
    ELSE IF is_zero(a) \/ is_zero(b) THEN (IF a = b THEN 0 ELSE IF is_zero(a) THEN -1 ELSE 1)
    ELSE IF a.exp # b.exp THEN (IF a.exp < b.exp THEN -1 ELSE 1)
    ELSE BigCmp(a.man, b.man)

\* the documents that hold term t more than once
holding_often(m, t) == {q \in DOMAIN m : t \in DOMAIN m[q] /\ m[q][t] > 1}

\* the documents of the model that hold term t
holding(m, t) == {q \in DOMAIN m : t \in DOMAIN m[q]}

\* idf of term t: the number of documents over the number of those holding t
idf_of(m, t) == log2_ratio(Cardinality(DOMAIN m), Cardinality(holding(m, t)))

RECURSIVE point_of(_, _, _, _, _)
\* the loop over the terms for the document data, from term i with the points
\* accumulated so far
point_of(m, data, terms, i, point) ==
    IF i > Len(terms) THEN point
    ELSE LET t == stem(to_lowercase(terms[i])) IN
         IF t \notin DOMAIN data THEN point_of(m, data, terms, i + 1, point)
         ELSE LET count == data[t]
                  total == Sum(data, DOMAIN data)
              IN  point_of(m, data, terms, i + 1,
                           plus(point, times(fdiv(count, total), idf_of(m, t))))

\* a vector that is left in the order the model was iterated in
unsorted(s) == s

RECURSIVE sort_desc(_)
\* docs.sort_by(|(_, b1), (_, a1)| a1.total_cmp(b1)): a stable sort, larger
\* points first
sort_desc(s) ==
    IF s = <<>> THEN <<>>
    ELSE LET rest == sort_desc(Tail(s))
             x == Head(s)
             \* x goes before the first element of rest that is not larger
             k == Cardinality({j \in 1..Len(rest) :
                      \A l \in 1..j : total_cmp(rest[l].point, x.point) > 0})
         IN  SubSeq(rest, 1, k) \o <<x>> \o SubSeq(rest, k + 1, Len(rest))

RECURSIVE paths_nonzero(_)
\* .filter(|(_p, d)| **d != 0.0).map(|(p, _)| p)
paths_nonzero(s) ==
    IF s = <<>> THEN <<>>
    ELSE (IF is_zero(Head(s).point) THEN <<>> ELSE <<Head(s).path>>)
         \o paths_nonzero(Tail(s))

\* the vector docs before it is sorted, the loop having iterated the model
\* in order keys
scored(m, terms, keys) ==
    [j \in 1..Len(keys) |-> [path |-> keys[j],
                             point |-> point_of(m, m[keys[j]], terms, 1, Zero)]]

\* do_query(model, terms) when model.iter() yields the paths in order keys
do_query(m, terms, keys) == paths_nonzero(sort_desc(scored(m, terms, keys)))

----------------------------------------------------------------------------
(* The state machine.                                                       *)

Roots == document_directories

NewTask == [pc |-> "start", todo |-> {}, map |-> EmptyMap, on_going |-> <<>>]

Absent == [exists |-> FALSE, readable |-> FALSE, bytes |-> <<>>]

\* an index file cut short: two entries announced, the first one incomplete
Truncated == [exists |-> TRUE, readable |-> TRUE, bytes |-> <<2, 1, Code("docs")>>]

\* an index file that exists and cannot be opened
Unreadable == [exists |-> TRUE, readable |-> FALSE, bytes |-> <<>>]

\* History of the operation in progress (init_model or refresh_model): the tree
\* and the index file it started on, the model it started with, the roots it
\* has called analyze_dir on and what each of these calls returned, whether it
\* has read or written the index file, whether an insert of the current walk
\* replaced an existing key; and the Index most recently written to the index
\* file.
NewHist(tree, m, f, saved) ==
    [tree |-> tree, walked |-> <<>>, returned |-> <<>>, old_model |-> m, file0 |-> f,
     read_file |-> FALSE, overwrote |-> FALSE, wrote |-> FALSE, saved |-> saved]

\* how far the result list is scrolled at most
MaxScroll == 1

\* how long the text of the search box gets at most
MaxQueryLen == 4

\* no library function is called on its own
NoCall == [f |-> "none"]

NoRet == [some |-> FALSE]

Init ==
    /\ fs \in Trees
    /\ index_file \in {Absent, Truncated, Unreadable}
    /\ app = [pc |-> "init_model", op |-> "init", ri |-> 1]
    /\ model = EmptyMap
    /\ tasks = EmptyMap
    /\ hist = NewHist(fs, EmptyMap, index_file, [some |-> FALSE, idx |-> EmptyMap])
    /\ docs = <<>>
    /\ query = <<>>
    /\ query_box_selected = FALSE
    /\ doc_offset = 0
    /\ call = NoCall
    /\ ret = NoRet

Crashed == [app EXCEPT !.pc = "crashed"]

\* the path of the analyze_dir call the main thread is in
Root == Roots[app.ri]

\* where analyze_dir goes on after the loop over the entries has taken a step
after_entry(todo, on_going) ==
    IF todo # {} THEN "iter" ELSE IF on_going # <<>> THEN "join" ELSE "done"

\* A panic of the activation for p: in a spawned thread it ends the thread; in
\* the main thread (the activation for the root) it ends the process.
Panic(p) ==
    /\ tasks' = [tasks EXCEPT ![p].pc = "panicked"]
    /\ app' = IF p = Root THEN Crashed ELSE app

\* a reindex that leaves the old entries in place
clear_keeps(m) == m

\* self.model.clear()
clear(m) == EmptyMap

\* an init_model that rebuilds whether or not the index file exists
InitModelRebuilds ==
    /\ app.pc = "init_model"
    /\ app' = [app EXCEPT !.pc = "walk", !.ri = 1]
    /\ UNCHANGED <<fs, index_file, model, tasks, hist>>
    /\ UNCHANGED <<ui, lib>>

\* an init_model whose load branch binds what it deserialized to a variable of
\* its own and returns the empty map it started with
InitModelForgets ==
    /\ app.pc = "init_model"
    /\ IF index_file.exists
       THEN LET r == deserialize(index_file.bytes) IN
            /\ hist' = [hist EXCEPT !.read_file = TRUE]
            /\ model' = model
            /\ app' = IF index_file.readable /\ r.ok THEN [app EXCEPT !.pc = "run"]
                      ELSE Crashed
       ELSE /\ app' = [app EXCEPT !.pc = "walk", !.ri = 1]
            /\ UNCHANGED <<model, hist>>
    /\ UNCHANGED <<fs, index_file, tasks>>
    /\ UNCHANGED <<ui, lib>>

\* init_model, the test index_file.exists() and the branch that loads the file
InitModel ==
    /\ app.pc = "init_model"
    /\ IF index_file.exists
       THEN LET r == deserialize(index_file.bytes) IN
            /\ hist' = [hist EXCEPT !.read_file = TRUE]
            /\ IF index_file.readable /\ r.ok
               THEN model' = r.v /\ app' = [app EXCEPT !.pc = "run"]
               ELSE model' = model /\ app' = Crashed
       ELSE /\ app' = [app EXCEPT !.pc = "walk", !.ri = 1]
            /\ UNCHANGED <<model, hist>>
    /\ UNCHANGED <<fs, index_file, tasks>>
    /\ UNCHANGED <<ui, lib>>

\* Key R while the query box is not selected: refresh_model up to its loop
\* over the document directories
RefreshModel ==
    /\ app.pc = "run"
    /\ ~query_box_selected
    /\ hist' = NewHist(fs, model, index_file, hist.saved)
    /\ model' = clear(model)
    /\ app' = [pc |-> "walk", op |-> "refresh", ri |-> 1]
    /\ UNCHANGED <<fs, index_file, tasks>>
    /\ UNCHANGED <<ui, lib>>

\* the main thread calls analyze_dir on the next document directory
CallAnalyzeDir ==
    /\ app.pc = "walk"
    /\ tasks = EmptyMap
    /\ tasks' = (Root :> NewTask)
    /\ hist' = [hist EXCEPT !.walked = Append(@, Root), !.overwrote = FALSE]
    /\ UNCHANGED <<fs, index_file, app, model>>
    /\ UNCHANGED <<ui, lib>>

\* analyze_dir(p): p.read_dir().unwrap()
ReadDir(p) ==
    /\ app.pc = "walk"
    /\ p \in DOMAIN tasks
    /\ tasks[p].pc = "start"
    /\ IF read_dir_ok(fs, p)
       THEN /\ tasks' = [tasks EXCEPT ![p].todo = Children(fs, p),
                                      ![p].pc = after_entry(Children(fs, p), <<>>)]
            /\ app' = app
       ELSE Panic(p)
    /\ UNCHANGED <<fs, index_file, model, hist>>
    /\ UNCHANGED <<ui, lib>>

\* the key analyze_file returns for the file at path q
file_key(q) == to_string_lossy(q)

\* One iteration of analyze_dir's loop over the entries, on entry d, in the
\* activation with state t: [r, task, over] with r "panic" (an unwrap failed),
\* "file" (a file, indexed or skipped) or "spawn" (a thread is spawned for d),
\* task the activation's next state, over whether map.insert replaced an entry.
entry_step(tree, t, d) ==
    LET todo == t.todo \ {d}
        stay == [r |-> "panic", task |-> t, over |-> FALSE]
    IN
    IF ~metadata_ok(tree, d) THEN stay
    ELSE IF is_file(tree, d)
    THEN LET a == analyze_file(d, tree[d]) IN
         CASE a.r = "Ok" ->
                [r |-> "file",
                 task |-> [t EXCEPT !.map = Insert(t.map, file_key(a.key), a.doc),
                                    !.todo = todo,
                                    !.pc = after_entry(todo, t.on_going)],
                 over |-> file_key(a.key) \in DOMAIN t.map]
           [] a.r = "Err" ->
                [r |-> "file",
                 task |-> [t EXCEPT !.todo = todo, !.pc = after_entry(todo, t.on_going)],
                 over |-> FALSE]
           [] OTHER -> stay
    ELSE \* std::thread::spawn(move || analyze_dir(&d.path()))
         [r |-> "spawn",
          task |-> [t EXCEPT !.todo = todo,
                             !.on_going = Append(t.on_going, d),
                             !.pc = after_entry(todo, Append(t.on_going, d))],
          over |-> FALSE]

\* analyze_dir(p): one iteration of the loop over the entries, on entry d
Entry(p, d) ==
    /\ app.pc = "walk"
    /\ p \in DOMAIN tasks
    /\ tasks[p].pc = "iter"
    /\ d \in tasks[p].todo
    /\ LET o == entry_step(fs, tasks[p], d) IN
       /\ IF o.r = "panic" THEN Panic(p)
          ELSE /\ tasks' = IF o.r = "spawn"
                           THEN (d :> NewTask) @@ [tasks EXCEPT ![p] = o.task]
                           ELSE [tasks EXCEPT ![p] = o.task]
               /\ app' = app
       /\ hist' = [hist EXCEPT !.overwrote = @ \/ o.over]
    /\ UNCHANGED <<fs, index_file, model>>
    /\ UNCHANGED <<ui, lib>>

\* a join that does not wait for the thread
join_returns_early(h) == TRUE

\* p.join() returns once the thread of activation h has ended
join_returns(h) == tasks[h].pc \in {"done", "panicked"}

\* analyze_dir(p): one iteration of the loop over on_going
Join(p) ==
    /\ app.pc = "walk"
    /\ p \in DOMAIN tasks
    /\ tasks[p].pc = "join"
    /\ LET t == tasks[p]
           h == Head(t.on_going)
       IN
       /\ join_returns(h)
       /\ IF tasks[h].pc = "panicked"
          THEN Panic(p) /\ hist' = hist
          ELSE /\ tasks' = [tasks EXCEPT
                               ![p].map = InsertAll(t.map, tasks[h].map),
                               ![p].on_going = Tail(t.on_going),
                               ![p].pc = after_entry({}, Tail(t.on_going))]
               /\ hist' = [hist EXCEPT !.overwrote =
                              @ \/ (DOMAIN t.map) \cap (DOMAIN tasks[h].map) # {}]
               /\ app' = app
    /\ UNCHANGED <<fs, index_file, model>>
    /\ UNCHANGED <<ui, lib>>

\* analyze_dir returned Ok(m) to the main thread: m is merged into the model
MergeRoot ==
    /\ app.pc = "walk"
    /\ Root \in DOMAIN tasks
    /\ tasks[Root].pc = "done"
    /\ model' = InsertAll(model, tasks[Root].map)
    /\ tasks' = EmptyMap
    /\ app' = [app EXCEPT !.ri = @ + 1,
                          !.pc = IF app.ri = Len(Roots) THEN "save" ELSE "walk"]
    /\ hist' = [hist EXCEPT !.returned = Append(@, tasks[Root].map)]
    /\ UNCHANGED <<fs, index_file>>
    /\ UNCHANGED <<ui, lib>>

\* a write that leaves a file that exists as it is
fs_write_new(f, bytes) ==
    IF f.exists THEN f ELSE [exists |-> TRUE, readable |-> TRUE, bytes |-> bytes]

\* std::fs::write(path, bytes): the file is created or replaced
fs_write(f, bytes) == [exists |-> TRUE, readable |-> TRUE, bytes |-> bytes]

\* a reindex that leaves the result list as it is
docs_kept(d) == d

\* self.docs.clear()
docs_clear(d) == <<>>

\* std::fs::write that fails: when the file cannot be created or opened for
\* writing (n < 0) it is left as it was; otherwise it was created or truncated
\* and the write stopped after the first n of the bytes
fs_write_failed(f, bytes, n) ==
    IF n < 0 THEN f ELSE [exists |-> TRUE, readable |-> TRUE, bytes |-> SubSeq(bytes, 1, n)]

\* what wincode::serialize(&idx) can return: the Index in each of its layouts
Serializations(idx) == {serialize(idx, lay) : lay \in Layouts(idx)}

\* std::fs::write(index_file, wincode::serialize(&model).unwrap()).unwrap(),
\* with bytes what serialize returned; the write goes through for n the
\* number of bytes and fails for every n below it
Save(bytes, n) ==
    /\ app.pc = "save"
    /\ n <= Len(bytes)
    /\ IF n = Len(bytes)
       THEN /\ index_file' = fs_write(index_file, bytes)
            /\ hist' = [hist EXCEPT !.wrote = TRUE,
                                    !.saved = [some |-> TRUE, idx |-> model]]
            /\ app' = [app EXCEPT !.pc = "run"]
            \* back in the handler of key R: self.docs.clear(); self.doc_offset = 0.0
            /\ docs' = IF app.op = "refresh" THEN docs_clear(docs) ELSE docs
            /\ doc_offset' = IF app.op = "refresh" THEN 0 ELSE doc_offset
       ELSE /\ index_file' = fs_write_failed(index_file, bytes, n)
            /\ hist' = IF n < 0 THEN hist
                       ELSE [hist EXCEPT !.saved = [some |-> FALSE, idx |-> EmptyMap]]
            /\ app' = Crashed
            /\ UNCHANGED <<docs, doc_offset>>
    /\ UNCHANGED <<fs, model, tasks, query, query_box_selected, lib>>

\* the save of the operation in progress, in any layout, gone through or failed
SaveStep ==
    /\ app.pc = "save"
    /\ \E bytes \in Serializations(model) : \E n \in -1..Len(bytes) : Save(bytes, n)

\* the window is closed and the application is started again
Restart ==
    /\ app.pc = "run"
    /\ app' = [pc |-> "init_model", op |-> "init", ri |-> 1]
    /\ model' = EmptyMap
    /\ hist' = NewHist(fs, EmptyMap, index_file, hist.saved)
    /\ docs' = <<>>
    /\ query' = <<>>
    /\ query_box_selected' = FALSE
    /\ doc_offset' = 0
    /\ UNCHANGED <<fs, index_file, tasks, lib>>

\* the user changes the document tree while no walk is running
FsChange(T) ==
    /\ app.pc = "run"
    /\ fs' \in T \ {fs}
    /\ UNCHANGED <<index_file, app, model, tasks, hist>>
    /\ UNCHANGED <<ui, lib>>

\* a query box that takes key events while refresh_model is running
in_frame_or_reindexing(pc) == pc \in {"run", "walk", "save"}

\* The main thread is in the body of the loop of run, outside of the call of
\* refresh_model: the key events of a frame are read there and nowhere else.
in_frame(pc) == pc = "run"

\* a click on the search box, or key "/"
SelectQueryBox ==
    /\ in_frame(app.pc)
    /\ query_box_selected' = TRUE
    /\ UNCHANGED <<fs, index_file, app, model, tasks, hist, docs, query, doc_offset, lib>>

\* a click outside of the search box, or key ESCAPE
DeselectQueryBox ==
    /\ in_frame(app.pc)
    /\ query_box_selected' = FALSE
    /\ UNCHANGED <<fs, index_file, app, model, tasks, hist, docs, query, doc_offset, lib>>

\* the mouse wheel: the offset moves by dy and is clamped to at most 0
Scroll(dy) ==
    /\ in_frame(app.pc)
    /\ doc_offset + dy >= -MaxScroll
    /\ doc_offset' = IF doc_offset + dy > 0 THEN 0 ELSE doc_offset + dy
    /\ UNCHANGED <<fs, index_file, app, model, tasks, hist, docs, query,
                   query_box_selected, lib>>

\* the keys a frame can report: key codes are those of upper case characters
KeySeqs == { <<>>, <<"C", "A", "T", "S">>, <<" ", "C", "A", "T">>, <<".">> }

is_ascii_alphanumeric(k) == k \in Letters \cup Upper \cup Digits

RECURSIVE pushed(_, _)
\* the loop over get_key_pressed(): the query after the keys ks
pushed(q, ks) ==
    IF ks = <<>> THEN q
    ELSE pushed(IF is_ascii_alphanumeric(Head(ks)) \/ Head(ks) = " "
                THEN Append(q, to_lowercase_char(Head(ks))) ELSE q,
                Tail(ks))

RECURSIVE split_from(_, _, _)
\* the words of q from position i on, cur being the word begun before i
split_from(q, i, cur) ==
    IF i > Len(q) THEN (IF cur = <<>> THEN <<>> ELSE <<cur>>)
    ELSE IF is_whitespace(q[i])
    THEN (IF cur = <<>> THEN <<>> ELSE <<cur>>) \o split_from(q, i + 1, <<>>)
    ELSE split_from(q, i + 1, Append(cur, q[i]))

\* self.query.split_whitespace().collect()
split_whitespace(q) == split_from(q, 1, <<>>)

\* A frame with the query box selected: BACKSPACE pops a character, the keys
\* pressed are appended, ENTER runs the query and shows its result.
QueryBoxKeys(backspace, ks, enter, keys) ==
    /\ in_frame(app.pc)
    /\ query_box_selected
    /\ LET q1 == IF backspace /\ query # <<>> THEN drop_last(query, 1) ELSE query
           q2 == pushed(q1, ks)
       IN
       /\ Len(q2) <= MaxQueryLen
       /\ query' = q2
       /\ IF enter
          THEN /\ docs' = do_query(model, split_whitespace(q2), keys)
               /\ doc_offset' = 0
          ELSE UNCHANGED <<docs, doc_offset>>
    /\ UNCHANGED <<fs, index_file, app, model, tasks, hist, query_box_selected, lib>>

\* a step of one of the threads inside analyze_dir
WalkStep ==
    \/ \E p \in DOMAIN tasks : ReadDir(p)
    \/ \E p \in DOMAIN tasks : \E d \in tasks[p].todo : Entry(p, d)
    \/ \E p \in DOMAIN tasks : Join(p)

Next ==
    \/ InitModel
    \/ RefreshModel
    \/ CallAnalyzeDir
    \/ WalkStep
    \/ MergeRoot
    \/ SaveStep
    \/ Restart
    \/ FsChange(Trees)

\* Startups and reindexes of the application on every tree, its query box left
\* alone: the key events of the query box change none of fs, index_file,
\* model, tasks and hist, and a selected box can always be deselected.
Spec == Init /\ [][Next]_vars

\* the application started on one of AppTrees without an index file
AppInit ==
    /\ Init
    /\ fs \in AppTrees
    /\ index_file = Absent

AppNext ==
    \/ InitModel
    \/ RefreshModel
    \/ CallAnalyzeDir
    \/ WalkStep
    \/ MergeRoot
    \/ SaveStep
    \/ Restart
    \/ FsChange(AppTrees)
    \/ SelectQueryBox
    \/ DeselectQueryBox
    \/ \E dy \in {-1, 1} : Scroll(dy)
    \/ \E backspace \in BOOLEAN, ks \in KeySeqs, enter \in BOOLEAN, keys \in iter(model) :
           QueryBoxKeys(backspace, ks, enter, keys)

\* the application idle, while a library function is called on its own
Idle ==
    /\ fs = TreeEmpty
    /\ index_file = Absent
    /\ app = [pc |-> "lib", op |-> "init", ri |-> 1]
    /\ model = EmptyMap
    /\ tasks = EmptyMap
    /\ hist = NewHist(fs, EmptyMap, index_file, [some |-> FALSE, idx |-> EmptyMap])
    /\ docs = <<>>
    /\ query = <<>>
    /\ query_box_selected = FALSE
    /\ doc_offset = 0

\* the sequences over S of length at most n
SeqsUpTo(S, n) == UNION {[1..k -> S] : k \in 0..n}

\* how long a text given to the tokenizer is at most
MaxTextLen == 4

\* the characters of the texts given to the tokenizer: a vowel, "s" in both
\* cases, a digit, the two word characters that are not alphanumeric, white
\* space and a punctuation mark
TextChars == {"a", "s", "S", "7", "'", "-", " ", "."}

TokInit ==
    /\ Idle
    /\ call \in {[f |-> "create_document_from_text", text |-> t] :
                    t \in SeqsUpTo(TextChars, MaxTextLen)}
    /\ ret = NoRet

\* the call returns
CreateDocument ==
    /\ call.f = "create_document_from_text"
    /\ ~ret.some
    /\ ret' = [some |-> TRUE, v |-> create_document_from_text(call.text)]
    /\ UNCHANGED <<fs, index_file, app, model, tasks, hist, ui, call>>

\* create_document_from_text called on every text of at most MaxTextLen
\* characters
TokSpec == TokInit /\ [][CreateDocument]_vars

\* how often a term occurs in a document given to do_query at most
MaxCount == 2

\* how many terms a query given to do_query has at most
MaxTerms == 2

\* the terms and the query words of the calls of do_query
QueryTerms == {<<"c", "a", "t">>, <<"s", "a", "t">>}
QueryWords == {<<"C", "a", "t", "s">>, <<"s", "a", "t">>}

\* the paths of the indexes of at most two and of three documents
QueryPaths == {DocsA, Sub2A}
TiePaths == {DocsA, Sub2A, MoreD}

\* the documents over QueryTerms, the empty one included
Documents == UNION {[S -> 1..MaxCount] : S \in SUBSET QueryTerms}

\* those that hold every term they hold once or MaxCount times
Extremes == UNION {[S -> {1, MaxCount}] : S \in SUBSET QueryTerms}

\* Four documents, both terms held by three of them, whose scores for a query
\* of the two terms are the same real number: three are log2(4/3) as it is,
\* that of the document at MoreD is 1/3 of it plus 2/3 of it, which rounds to
\* the f64 below.
RoundingIndex ==
    (DocsA :> (<<"c", "a", "t">> :> 1)) @@
    (Sub2A :> (<<"s", "a", "t">> :> 1)) @@
    (MoreD :> ((<<"c", "a", "t">> :> 1) @@ (<<"s", "a", "t">> :> 2))) @@
    (Sub1B :> ((<<"c", "a", "t">> :> 1) @@ (<<"s", "a", "t">> :> 1)))

\* the indexes over QueryPaths, the empty one included, those of three
\* documents of Extremes, and RoundingIndex
Indexes ==
    UNION {[P -> Documents] : P \in SUBSET QueryPaths}
    \cup [TiePaths -> Extremes] \cup {RoundingIndex}

QueryInit ==
    /\ Idle
    /\ call \in {[f |-> "do_query", model |-> m, terms |-> ts] :
                    m \in Indexes, ts \in SeqsUpTo(QueryWords, MaxTerms)}
    /\ ret = NoRet

\* the call returns, having iterated the model in order keys
DoQuery(keys) ==
    /\ call.f = "do_query"
    /\ ~ret.some
    /\ ret' = [some |-> TRUE, v |-> do_query(call.model, call.terms, keys)]
    /\ UNCHANGED <<fs, index_file, app, model, tasks, hist, ui, call>>

QueryNext == \E keys \in iter(call.model) : DoQuery(keys)

\* do_query called on every index of Indexes and every list of at most
\* MaxTerms query words
QuerySpec == QueryInit /\ [][QueryNext]_vars

\* The application with its query box in use: startups, reindexes and the key
\* events of the query box, in any order.
AppSpec == AppInit /\ [][AppNext]_vars

----------------------------------------------------------------------------
(* What a walk is to produce, as a function of the tree alone.              *)

Prefix(p, q) == Len(p) <= Len(q) /\ SubSeq(q, 1, Len(p)) = p

\* q lies beneath directory p and every directory from p down to q can be
\* read, every entry on the way has readable metadata
Reachable(tree, p, q) ==
    /\ q \in DOMAIN tree
    /\ Len(q) > Len(p)
    /\ Prefix(p, q)
    /\ \A k \in Len(p)..(Len(q) - 1) : read_dir_ok(tree, SubSeq(q, 1, k))
    /\ \A k \in (Len(p) + 1)..Len(q) : metadata_ok(tree, SubSeq(q, 1, k))

\* a regular file with an extension of the allow-list whose text can be extracted
Indexable(tree, q) ==
    /\ tree[q].kind = "file"
    /\ extension(q) \in {"xml", "xhtml", "pdf"}
    /\ tree[q].cond = "ok"

DocumentOf(tree, q) ==
    create_document_from_text(
        IF extension(q) = "pdf" THEN pdf_text(tree[q].data, 1) ELSE xml_text(tree[q].data, 1))

\* one entry for every indexable file reachable beneath p
ExpectedIndex(tree, p) ==
    [q \in {x \in DOMAIN tree : Reachable(tree, p, x) /\ Indexable(tree, x)} |->
        DocumentOf(tree, q)]

\* the union of the walk results of the first k configured roots
ExpectedUpTo(tree, k) ==
    [q \in UNION {DOMAIN ExpectedIndex(tree, Roots[i]) : i \in 1..k} |-> DocumentOf(tree, q)]

FullIndex(tree) == ExpectedUpTo(tree, Len(Roots))

\* every name of the tree is valid UTF-8
ValidNames(tree) == \A q \in DOMAIN tree : to_string_lossy(q) = q

RECURSIVE UnionOf(_)
\* the maps of rs inserted into an empty map, one map after the other
UnionOf(rs) ==
    IF rs = <<>> THEN EmptyMap
    ELSE InsertAll(UnionOf(SubSeq(rs, 1, Len(rs) - 1)), rs[Len(rs)])

\* no node of the tree answers with a failure
NoFailure(tree) == \A q \in DOMAIN tree : tree[q].cond \in {"ok", "encrypted"}

SubdirEntries(tree, p) == {d \in Children(tree, p) : ~is_file(tree, d)}

\* the main thread is inside a call of analyze_dir
TopCalled == app.pc = "walk" /\ tasks # EmptyMap

\* that call has returned Ok(map) and the map is not yet merged into the model
TopReturned == TopCalled /\ tasks[Root].pc = "done"

\* The bytes b from position pos on are the entries of the paths ps of Index
\* idx, in this order, every Document written in an order of its terms.
RECURSIVE EntriesAt(_, _, _, _)
EntriesAt(b, pos, idx, ps) ==
    IF ps = <<>> THEN pos = Len(b) + 1
    ELSE \E ts \in iter(idx[Head(ps)]) :
            LET e == write_str(path_units(Head(ps))) \o write_document(idx[Head(ps)], ts)
            IN  /\ pos + Len(e) - 1 <= Len(b)
                /\ SubSeq(b, pos, pos + Len(e) - 1) = e
                /\ EntriesAt(b, pos + Len(e), idx, Tail(ps))

\* b is a serialization of Index idx: b \in Serializations(idx), decided entry
\* by entry
IsSerialization(b, idx) ==
    /\ b # <<>>
    /\ b[1] = Cardinality(DOMAIN idx)
    /\ \E ps \in iter(idx) : EntriesAt(b, 2, idx, ps)

----------------------------------------------------------------------------
(* C1: init_model.  When the index file exists, startup walks no document   *)
(* directory, does not write the file, and ends with the Index that the     *)
(* file deserializes to.  When it is absent, startup does not read it,      *)
(* walks every configured directory in turn, ends with the union of what    *)
(* the walks returned (on a tree of valid UTF-8 names: one entry per        *)
(* indexable file), and has saved exactly that Index, after the walks.      *)
C1_InitModel ==
    app.op = "init" =>
        IF hist.file0.exists
        THEN /\ tasks = EmptyMap
             /\ hist.walked = <<>>
             /\ ~hist.wrote
             /\ index_file = hist.file0
             /\ app.pc = "run" => model = deserialize(hist.file0.bytes).v
        ELSE /\ ~hist.read_file
             /\ app.pc \in {"walk", "save"} => ~hist.wrote /\ index_file = hist.file0
             /\ app.pc \in {"save", "run"} =>
                   /\ hist.walked = Roots
                   /\ Len(hist.returned) = Len(Roots)
                   /\ model = UnionOf(hist.returned)
                   /\ ValidNames(hist.tree) => model = FullIndex(hist.tree)
             /\ app.pc = "run" =>
                   /\ hist.wrote
                   /\ index_file.exists
                   /\ IsSerialization(index_file.bytes, model)

\* startup has loaded a non-empty Index from the file, and the tree has changed
\* since the file was written: a walk would have produced another Index
C1_Witness ==
    /\ app.op = "init" /\ app.pc = "run"
    /\ hist.file0.exists
    /\ model # EmptyMap
    /\ model # FullIndex(fs)

----------------------------------------------------------------------------
\* a reindex is between its start and its return (or its crash)
Reindexing == app.op = "refresh" /\ app.pc \in {"walk", "save", "crashed"}

(* C2, as claimed: during a reindex the in-memory Index is never partially  *)
(* rebuilt: in every state it is the complete old Index or the complete new *)
(* one.                                                                     *)
C2_NeverPartial ==
    Reindexing => model = hist.old_model \/ model = FullIndex(hist.tree)

(* C2, amended: a reindex rebuilds the Index in place.  It first empties    *)
(* the Index and then merges in the complete walk result of one configured  *)
(* root after the other: during a reindex the Index is the union of the     *)
(* walk results of the roots walked so far (empty at first, then partial),  *)
(* it holds no entry of the old Index that this reindex did not extract,    *)
(* and it is the complete new Index once the last root is merged.  On a     *)
(* tree of valid UTF-8 names the walk results hold one entry per indexable  *)
(* file.                                                                    *)
C2_RebuiltInPlace ==
    Reindexing =>
        /\ Len(hist.returned) = app.ri - 1
        /\ model = UnionOf(hist.returned)
        /\ app.pc = "save" => Len(hist.returned) = Len(Roots)
        /\ ValidNames(hist.tree) =>
              /\ model = ExpectedUpTo(hist.tree, app.ri - 1)
              /\ app.pc = "save" => model = FullIndex(hist.tree)

\* a reindex in progress whose Index is neither the old nor the new one, nor
\* empty: the first root is merged, the second is not
C2_Witness ==
    /\ Reindexing /\ app.pc = "walk" /\ app.ri = 2
    /\ model # EmptyMap
    /\ model # hist.old_model
    /\ model # FullIndex(hist.tree)

----------------------------------------------------------------------------
(* C3: when a reindex has merged its last root, and when it has returned,   *)
(* the Index is the union over the configured roots of the walk results:    *)
(* exactly one entry for every indexable file reachable beneath a root,     *)
(* whatever the Index held before, and the index file was not read.         *)
C3_ReindexResult ==
    (app.op = "refresh" /\ app.pc \in {"save", "run"}) =>
        /\ hist.walked = Roots
        /\ DOMAIN model =
              {q \in DOMAIN hist.tree :
                  /\ \E i \in 1..Len(Roots) : Reachable(hist.tree, Roots[i], q)
                  /\ Indexable(hist.tree, q)}
        /\ \A q \in DOMAIN model : model[q] = DocumentOf(hist.tree, q)
        /\ ~hist.read_file

----------------------------------------------------------------------------
\* the activations of the current walk are exactly the root and the
\* subdirectory entries met so far, each spawned by its parent
OneTaskPerSubdir ==
    \A p \in DOMAIN tasks :
        /\ p # Root =>
              /\ ~is_file(fs, p)
              /\ SubSeq(p, 1, Len(p) - 1) \in DOMAIN tasks
        /\ tasks[p].pc \in {"join", "done"} =>
              \A d \in SubdirEntries(fs, p) : d \in DOMAIN tasks

\* an activation that has returned has joined every task it spawned, each of
\* them has returned, and its partial index is part of the result
JoinedBeforeReturn ==
    \A p \in DOMAIN tasks :
        tasks[p].pc = "done" =>
            /\ tasks[p].todo = {}
            /\ tasks[p].on_going = <<>>
            /\ \A d \in SubdirEntries(fs, p) :
                  /\ tasks[d].pc = "done"
                  /\ \A k \in DOMAIN tasks[d].map :
                        k \in DOMAIN tasks[p].map /\ tasks[p].map[k] = tasks[d].map[k]

\* when the top-level call has returned no task is running
NoneRunningAtReturn ==
    TopReturned => \A p \in DOMAIN tasks : tasks[p].pc = "done"

\* the thread of activation p can take a step: it is not blocked in a join
Runnable(p) ==
    \/ tasks[p].pc \in {"start", "iter"}
    \/ tasks[p].pc = "join" /\ join_returns(Head(tasks[p].on_going))

\* while the top-level call is running some thread can take a step
NoDeadlock ==
    (TopCalled /\ tasks[Root].pc # "done") => \E p \in DOMAIN tasks : Runnable(p)

\* on a tree none of whose nodes fails no thread panics
NoPanicWithoutFailure ==
    NoFailure(fs) => \A p \in DOMAIN tasks : tasks[p].pc # "panicked"

\* the steps an activation for directory d takes at most, from its start
Work(d) ==
    1 + (IF read_dir_ok(fs, d)
         THEN Cardinality(Children(fs, d)) + Cardinality(SubdirEntries(fs, d)) ELSE 0)

\* the steps the activation for p has left at most
Remaining(p) ==
    LET t == tasks[p] IN
    CASE t.pc = "start" -> Work(p)
      [] t.pc = "iter"  -> Cardinality(t.todo) + Len(t.on_going)
                           + Cardinality({d \in t.todo : ~is_file(fs, d)})
      [] t.pc = "join"  -> Len(t.on_going)
      [] OTHER          -> 0

\* the steps the current top-level call has left at most: those of its
\* activations and those of the directories beneath the root not yet met
StepsLeft ==
    LET unmet == {q \in DOMAIN fs : Len(q) > Len(Root) /\ Prefix(Root, q)
                                     /\ ~is_file(fs, q) /\ q \notin DOMAIN tasks}
    IN  Sum([p \in DOMAIN tasks |-> Remaining(p)], DOMAIN tasks)
        + Sum([q \in unmet |-> Work(q)], unmet)

(* C4: fork-join walk.  analyze_dir spawns one task per subdirectory entry; *)
(* an activation returns only after every task it spawned has returned and  *)
(* its partial index is merged; no task is running when the top-level call  *)
(* returns.  The call ends: while it runs some thread can always take a     *)
(* step (the joins never deadlock) and every step of a thread lowers the    *)
(* number of steps left; on a tree none of whose nodes fails no thread      *)
(* panics, so the call ends by returning.                                   *)
C4_ForkJoin ==
    /\ [](OneTaskPerSubdir /\ JoinedBeforeReturn /\ NoneRunningAtReturn)
    /\ [](NoDeadlock /\ NoPanicWithoutFailure)
    /\ [][(tasks # EmptyMap /\ tasks' # EmptyMap /\ tasks' # tasks)
            => StepsLeft' < StepsLeft]_vars

\* the walk of docs/ has returned: four activations, two of them siblings
\* that ran concurrently, one nested
C4_Witness ==
    /\ TopReturned
    /\ Root = Docs
    /\ DOMAIN tasks = {Docs, Sub1, Sub2, Deep}

----------------------------------------------------------------------------
(* C5: the result of a walk is a function of the tree alone: whatever the   *)
(* order of the directory entries and the interleaving of the threads,      *)
(* every activation that returns returns one entry per indexable file       *)
(* beneath its directory, with that file's term counts; and no insert of a  *)
(* walk replaces an entry inserted before (the key sets are disjoint).      *)
C5_OrderIndependent ==
    /\ \A p \in DOMAIN tasks :
          tasks[p].pc = "done" => tasks[p].map = ExpectedIndex(fs, p)
    /\ ~hist.overwrote

----------------------------------------------------------------------------
DirFailures  == {"noread", "notdir", "nometa"}
FileFailures == {"noopen", "badpdf", "notext"}

\* the tree holds a directory read failure and no file-level failure
OnlyDirFailures(tree) ==
    /\ \E q \in DOMAIN tree : tree[q].cond \in DirFailures
    /\ \A q \in DOMAIN tree : tree[q].cond \notin FileFailures

\* the tree holds a file-level extraction failure and no directory read failure
OnlyFileFailures(tree) ==
    /\ \E q \in DOMAIN tree : tree[q].cond \in FileFailures
    /\ \A q \in DOMAIN tree : tree[q].cond \notin DirFailures

\* the process died inside a walk
CrashedInWalk == app.pc = "crashed" /\ tasks # EmptyMap

\* the activation for p met a directory read failure of its own
OwnDirFailure(p) ==
    \/ ~read_dir_ok(fs, p)
    \/ \E d \in Children(fs, p) : ~metadata_ok(fs, d)

(* C6: a directory read failure aborts only that subtree: the caller of     *)
(* analyze_dir gets a result and not a crash, no activation other than the  *)
(* failing one is aborted, and the result holds the documents of every      *)
(* other subtree and none of the failing one.                               *)
C6_DirFailureIsLocal ==
    OnlyDirFailures(fs) =>
        /\ ~CrashedInWalk
        /\ \A p \in DOMAIN tasks : tasks[p].pc = "panicked" => OwnDirFailure(p)
        /\ TopReturned => tasks[Root].map = ExpectedIndex(fs, Root)

(* C7: a file-level extraction failure never aborts anything: the file is   *)
(* skipped, no activation is aborted, the process does not crash, and the   *)
(* result holds the entries of every other file and subtree.                *)
C7_FileFailureIsSkipped ==
    OnlyFileFailures(fs) =>
        /\ ~CrashedInWalk
        /\ \A p \in DOMAIN tasks : tasks[p].pc # "panicked"
        /\ TopReturned => tasks[Root].map = ExpectedIndex(fs, Root)

\* startup found an index file that cannot be read or deserialized
BadIndexFile ==
    /\ app.op = "init"
    /\ hist.file0.exists
    /\ ~hist.file0.readable \/ ~deserialize(hist.file0.bytes).ok

(* C8: when the index file exists but cannot be read or deserialized,       *)
(* startup falls back to a full rebuild: it does not crash, and it ends     *)
(* with the Index the walk of the configured directories produces.          *)
C8_LoadFallsBack ==
    BadIndexFile =>
        /\ app.pc # "crashed"
        /\ app.pc = "run" => hist.walked = Roots /\ model = FullIndex(hist.tree)

(* C9: when writing the index file fails, the failure is surfaced to the    *)
(* caller and the freshly built Index stays in memory and usable: once the  *)
(* last root is merged the application never crashes, and it holds the      *)
(* complete new Index.                                                      *)
C9_SaveFailureSurfaced ==
    (app.pc \in {"save", "crashed"} /\ app.ri > Len(Roots)) =>
        /\ app.pc # "crashed"
        /\ model = FullIndex(hist.tree)

----------------------------------------------------------------------------
(* C10: save followed by load.                                              *)

\* The property of the format that the codec is modelled to have: whatever
\* the iteration orders the maps of the Index are written in, what is written
\* deserializes to an Index with the same paths and, per path, the same terms
\* with the same counts.
CodecRoundTrip ==
    app.pc = "save" =>
        \A lay \in Layouts(model) :
            LET r == deserialize(serialize(model, lay)) IN r.ok /\ r.v = model

LoadedSaved(n) ==
    /\ app.op = "init" /\ app.pc = "run" /\ hist.read_file
    /\ hist.saved.some
    /\ Cardinality(DOMAIN model) = n

\* the Index loaded was empty, and it held one document
LoadedEmpty == LoadedSaved(0)
LoadedOne == LoadedSaved(1)

----------------------------------------------------------------------------
(* C13: the tokenizer.                                                      *)

\* a character that continues the current word
is_word_char(c) == is_alphanumeric(c) \/ c = "'" \/ c = "-"

\* The tokens of a text, each as <<first position, last position>>: the maximal
\* runs of word characters, and every character that is neither a word
\* character nor white space.
Tokens(text) ==
    LET n == Len(text) IN
    { k \in (1..n) \X (1..n) :
        \/ /\ k[1] <= k[2]
           /\ \A i \in k[1]..k[2] : is_word_char(text[i])
           /\ k[1] = 1 \/ ~is_word_char(text[k[1] - 1])
           /\ k[2] = n \/ ~is_word_char(text[k[2] + 1])
        \/ /\ k[1] = k[2]
           /\ ~is_word_char(text[k[1]])
           /\ ~is_whitespace(text[k[1]]) }

\* the term a token is counted as
TermOf(text, k) == stem(to_lowercase(SubSeq(text, k[1], k[2])))

\* for every term, the number of tokens counted as it
TokenCounts(text) ==
    [t \in {TermOf(text, k) : k \in Tokens(text)} |->
        Cardinality({k \in Tokens(text) : TermOf(text, k) = t})]

\* create_document_from_text has returned
Tokenized == call.f = "create_document_from_text" /\ ret.some

\* C13: create_document_from_text returns, for every text, the counts of its
\* tokens: each maximal run of alphanumeric, apostrophe or hyphen characters is
\* one word, every other character that is not white space is a token of its
\* own, the word pending at the end is one too; a token is counted as its
\* lowercased, stemmed form; no empty word is counted (Tokens holds no empty
\* run), and the counts sum to the number of tokens.  The term a word is
\* counted as can be empty all the same: the stemmer leaves nothing of "''s".
C13_TokenCounts ==
    Tokenized =>
        /\ ret.v = TokenCounts(call.text)
        /\ Sum(ret.v, DOMAIN ret.v) = Cardinality(Tokens(call.text))

\* "S. s": two words that are both counted as "s", a punctuation mark counted
\* as a term, white space that is not, and a word pending at the end
C13_Witness ==
    /\ Tokenized
    /\ call.text = <<"S", ".", " ", "s">>
    /\ ret.v = (<<"s">> :> 2) @@ (<<".">> :> 1)

----------------------------------------------------------------------------
(* C14: extractor dispatch.                                                 *)

\* the entries of directory p its activation has dealt with that are files
FilesSeen(p) == {d \in Children(fs, p) \ tasks[p].todo : is_file(fs, d)}

\* the extension is exactly one of the allow-list and the file is not a pdf
\* that reports itself encrypted
Dispatched(tree, d) ==
    /\ d \in DOMAIN tree
    /\ extension(d) \in {"xml", "xhtml", "pdf"}
    /\ tree[d].cond # "encrypted"

\* C14: dispatch is a case-sensitive match on the extension.  A file an
\* activation has dealt with has an entry exactly when its extension is xml,
\* xhtml or pdf and it is not an encrypted pdf, every key of a partial index is
\* such a file, and a file that yields no entry ends nothing: an activation
\* panics only when a directory or a file of the allow-list beneath it answers
\* with a failure, and the operation that returned has indexed the other files.
C14_Dispatch ==
    /\ \A p \in DOMAIN tasks :
          /\ (tasks[p].pc # "start" /\ read_dir_ok(fs, p)) =>
                \A d \in FilesSeen(p) : (d \in DOMAIN tasks[p].map) <=> Dispatched(fs, d)
          /\ \A k \in DOMAIN tasks[p].map : Dispatched(fs, k)
          /\ tasks[p].pc = "panicked" =>
                \E q \in DOMAIN fs :
                    Prefix(p, q) /\ fs[q].cond \in DirFailures \cup FileFailures
    /\ (app.pc = "run" /\ hist.wrote) =>
          DOMAIN model = {q \in DOMAIN hist.tree :
                             /\ hist.tree[q].kind = "file"
                             /\ Dispatched(hist.tree, q)}

\* C14 for the names that are valid UTF-8: the statement above while neither
\* the tree nor the tree the operation started on holds a name that is not.
C14_DispatchUtf8 == (ValidNames(fs) /\ ValidNames(hist.tree)) => C14_Dispatch

\* a reindex of the full tree with docs/sub1/b.pdf encrypted has returned: the
\* encrypted pdf, notes.txt, X.XML and README have no entry, every other file
\* of the two roots has one
C14_Witness ==
    /\ app.pc = "run"
    /\ hist.wrote
    /\ {Sub1B, Sub1N, MoreX, MoreR} \subseteq DOMAIN hist.tree
    /\ hist.tree[Sub1B].cond = "encrypted"
    /\ DOMAIN model = {DeepC, MoreD}

----------------------------------------------------------------------------
(* C11: the result of do_query.                                             *)

\* do_query has returned
Queried == call.f = "do_query" /\ ret.some

\* the score do_query accumulates for the document at path p
Score(m, terms, p) == point_of(m, m[p], terms, 1, Zero)

\* the place of x in sequence s
Place(s, x) == CHOOSE i \in 1..Len(s) : s[i] = x

\* the result holds the paths of exactly the documents whose score is not 0,
\* each once, larger scores first
Ranked(r, m, terms) ==
    /\ {r[i] : i \in 1..Len(r)} = {p \in DOMAIN m : ~is_zero(Score(m, terms, p))}
    /\ \A i, j \in 1..Len(r) : i # j => r[i] # r[j]
    /\ \A i \in 1..(Len(r) - 1) :
          total_cmp(Score(m, terms, r[i]), Score(m, terms, r[i + 1])) >= 0

\* C11: do_query returns the paths of exactly those documents of the Index
\* whose accumulated score is not 0, each path once, in an order in which every
\* score is at least the next one; the Index it was called on is not changed.
C11_Ranked ==
    /\ [](Queried => Ranked(ret.v, call.model, call.terms))
    /\ [][call' = call]_vars

\* a query on three documents has returned two of them, the third scoring 0,
\* the higher score first, also when the model is iterated the other way round
C11_Witness ==
    /\ Queried
    /\ Cardinality(DOMAIN call.model) = 3
    /\ Len(ret.v) = 2
    /\ total_cmp(Score(call.model, call.terms, ret.v[1]),
                 Score(call.model, call.terms, ret.v[2])) > 0
    /\ \E keys \in iter(call.model) :
          /\ Place(keys, ret.v[1]) > Place(keys, ret.v[2])
          /\ do_query(call.model, call.terms, keys) = ret.v

\* a query of both terms on RoundingIndex has returned
RoundingQueried ==
    /\ Queried
    /\ call.model = RoundingIndex
    /\ call.terms = <<<<"C", "a", "t", "s">>, <<"s", "a", "t">>>>

\* The rounding of the sums decides between scores that are the same real
\* number: on RoundingIndex the document at MoreD scores one unit in the last
\* place below the other three and is returned last, whatever the order the
\* Index was iterated in; the other three come in the order of the iteration.
RoundedLast ==
    RoundingQueried =>
        /\ Len(ret.v) = 4
        /\ ret.v[4] = MoreD
        /\ \A p \in {DocsA, Sub2A, Sub1B} :
              /\ Score(call.model, call.terms, p) = Score(call.model, call.terms, DocsA)
              /\ total_cmp(Score(call.model, call.terms, p),
                           Score(call.model, call.terms, MoreD)) > 0

\* such a query has returned with the document at Sub1B first
RoundedLast_Witness == RoundingQueried /\ ret.v[1] = Sub1B

----------------------------------------------------------------------------
(* C12: the scores are well-defined.                                        *)

\* the normalized query terms, in the order of the query
Normalized(terms) == [i \in 1..Len(terms) |-> stem(to_lowercase(terms[i]))]

\* the normalized query terms document data holds: those that reach the tf/idf
\* step
Matching(data, terms) ==
    {t \in {Normalized(terms)[i] : i \in 1..Len(terms)} : t \in DOMAIN data}

\* the tf/idf step of term t for document data divides by no 0 and gives a
\* number that is not negative
StepDefined(m, data, t) ==
    LET N == Cardinality(DOMAIN m)
        df == Cardinality(holding(m, t))
        count == data[t]
        total == Sum(data, DOMAIN data)
        tf == fdiv(count, total)
        idf == idf_of(m, t)
        x == times(tf, idf)
    IN  /\ 1 <= df /\ df <= N
        /\ 1 <= count /\ count <= total
        /\ is_finite(tf)
        /\ is_finite(idf)
        /\ total_cmp(idf, Zero) >= 0
        /\ is_finite(x)
        /\ total_cmp(x, Zero) >= 0

\* C12: for every Index and every query, whenever a term reaches the tf/idf
\* step for a document, 1 <= df <= N and 1 <= count <= total, so that nothing
\* is divided by 0 and tf * idf >= 0; every score is a number that is not
\* negative; a document that holds none of the normalized query terms (every
\* document when the query is empty) scores exactly 0 and is not in the result.
C12_ScoresDefined ==
    Queried =>
        \A p \in DOMAIN call.model :
            LET data == call.model[p]
                point == Score(call.model, call.terms, p)
            IN  /\ \A t \in Matching(data, call.terms) : StepDefined(call.model, data, t)
                /\ is_finite(point)
                /\ total_cmp(point, Zero) >= 0
                /\ Matching(data, call.terms) = {} =>
                      /\ point = Zero
                      /\ \A i \in 1..Len(ret.v) : ret.v[i] # p

\* a query of two terms on three documents has returned: one document holds
\* both terms and scores above 0, another holds neither and is left out
C12_Witness ==
    /\ Queried
    /\ Cardinality(DOMAIN call.model) = 3
    /\ \E p, q \in DOMAIN call.model :
          /\ Cardinality(Matching(call.model[p], call.terms)) = 2
          /\ total_cmp(Score(call.model, call.terms, p), Zero) > 0
          /\ Matching(call.model[q], call.terms) = {}
          /\ ret.v = <<p>>

----------------------------------------------------------------------------
(* C16: terms that occur in every document.                                 *)

\* term t occurs in every document of the model
InEvery(m, t) == holding(m, t) = DOMAIN m

\* C16: a query term that occurs in every document of the Index adds exactly 0
\* to every score; a document all of whose matching query terms occur in every
\* document is not in the result; an Index of exactly one document gives the
\* empty result for every query.
C16_CommonTermsScoreZero ==
    Queried =>
        /\ \A p \in DOMAIN call.model :
              LET data == call.model[p]
                  total == Sum(data, DOMAIN data)
              IN  /\ \A t \in Matching(data, call.terms) :
                        InEvery(call.model, t) =>
                            is_zero(times(fdiv(data[t], total), idf_of(call.model, t)))
                  /\ (\A t \in Matching(data, call.terms) : InEvery(call.model, t)) =>
                        \A i \in 1..Len(ret.v) : ret.v[i] # p
        /\ Cardinality(DOMAIN call.model) = 1 => ret.v = <<>>

\* the Index holds one document, the query names the two terms the document
\* holds, and the result is empty
C16_Witness ==
    /\ Queried
    /\ Cardinality(DOMAIN call.model) = 1
    /\ \E p \in DOMAIN call.model :
          Cardinality(Matching(call.model[p], call.terms)) = 2
    /\ ret.v = <<>>

----------------------------------------------------------------------------
(* C15: queries and rebuilds.                                               *)

\* a step in which do_query is executed: a frame of the selected query box
\* with ENTER down
QueryStep ==
    \E backspace \in BOOLEAN, ks \in KeySeqs, keys \in iter(model) :
        QueryBoxKeys(backspace, ks, TRUE, keys)

\* C15: no query runs concurrently with a rebuild.  A step that executes
\* do_query is taken outside of refresh_model (not between its start and its
\* end), with no activation of a walk left, and leaves the Index as it is; the
\* activations of a walk are only discarded when every one of them has
\* returned, and none exists while the main thread is in the loop of run.
C15_NoQueryDuringRebuild ==
    /\ [][QueryStep =>
            /\ ~Reindexing
            /\ app.pc = "run"
            /\ tasks = EmptyMap
            /\ model' = model]_vars
    /\ [][(tasks # EmptyMap /\ tasks' = EmptyMap) =>
            \A p \in DOMAIN tasks : tasks[p].pc = "done"]_vars
    /\ [](app.pc \in {"save", "run"} => tasks = EmptyMap)

\* after a reindex of a tree with a subdirectory (one thread was spawned and
\* joined) a query has run and shows a result
C15_Witness ==
    /\ app.pc = "run"
    /\ app.op = "refresh"
    /\ hist.wrote
    /\ Sub2A \in DOMAIN model
    /\ docs # <<>>

----------------------------------------------------------------------------
(* C17: the index file and the Index in memory.                             *)

\* init_model or refresh_model has returned normally and the main thread is in
\* the loop of run
Returned == app.pc = "run"

\* C17: whenever init_model or refresh_model has returned normally, the index
\* file exists, holds the serialization of the Index in memory (in one of the
\* iteration orders of its maps) and deserializes to exactly that Index, after
\* any sequence of startups and reindexes.
C17_FileAgrees ==
    Returned =>
        /\ index_file.exists
        /\ IsSerialization(index_file.bytes, model)
        /\ deserialize(index_file.bytes).ok
        /\ deserialize(index_file.bytes).v = model

\* a reindex has returned that replaced an index file written earlier, with an
\* Index that differs from the one before it
C17_Witness ==
    /\ Returned
    /\ app.op = "refresh"
    /\ hist.file0.exists
    /\ hist.wrote
    /\ model # hist.old_model
    /\ model # EmptyMap

----------------------------------------------------------------------------
(* C18: the displayed result list.                                          *)

\* every path of the result list is a key of the Index in memory
DocsAreKeys == \A i \in 1..Len(docs) : docs[i] \in DOMAIN model

\* C18: after any sequence of query and reindex key events (the main thread is
\* back in the loop of run) every path in App.docs is a key of the Index in
\* memory; docs only ever changes to the output of do_query over the model as
\* it is, for the words of the query box, or to the empty list; and a reindex
\* that returns leaves docs empty and the scroll offset 0.
C18_DocsAreKeys ==
    /\ [](app.pc = "run" => DocsAreKeys)
    /\ [][docs' # docs =>
            \/ docs' = <<>>
            \/ /\ model' = model
               /\ \E keys \in iter(model) :
                     docs' = do_query(model, split_whitespace(query'), keys)]_vars
    /\ [][(Reindexing /\ app'.pc = "run") => (docs' = <<>> /\ doc_offset' = 0)]_vars

\* a reindex has returned on a tree that no longer holds more/d.xml, which the
\* Index before it held and the query still in the box matched: the result
\* list is empty and not scrolled
C18_Witness ==
    /\ app.pc = "run"
    /\ app.op = "refresh"
    /\ hist.wrote
    /\ MoreD \in DOMAIN hist.old_model
    /\ MoreD \notin DOMAIN model
    /\ model # EmptyMap
    /\ query = <<"c", "a", "t", "s">>
    /\ docs = <<>>
    /\ doc_offset = 0

=============================================================================
